---- MODULE Spec2Model ----
(***************************************************************************)
(* State-machine model of the Premium Kids Fashion API (src/main.py):      *)
(* the order / payment orchestrator (create_payment_order, verify_payment, *)
(* payment_webhook, update_order) and the wishlist / cart handlers.        *)
(*                                                                         *)
(* Python values are tagged records: None is [t |-> "none"], a str is      *)
(* [t |-> "str", v |-> ...], a JSON object (dict) is [t |-> "obj", f |-> a *)
(* record of its keys].  A collection is the sequence of its documents in  *)
(* insertion order, which is the order find_one / update_one / delete_one  *)
(* scan it in.  Order documents carry the fields the handlers read or      *)
(* write; items and total_price are written once at creation, never read   *)
(* again, and are left out.                                                *)
(***************************************************************************)
EXTENDS Integers, Sequences, FiniteSets, TLC

VARIABLES env, orders, wishlist, cart, oid_seq, gw_seq, call, resp, threads, log

vars == <<env, orders, wishlist, cart, oid_seq, gw_seq, call, resp, threads, log>>

(* ---------------------------- bounds ---------------------------------- *)

\* orders ever created
MaxOrders == 2
\* wishlist and cart documents ever inserted
MaxInserts == 2
\* largest cart quantity reached by $inc
MaxQuantity == 3
\* wishlist / cart requests in flight at once
MaxThreads == 2

(* ---------------------------- Python values --------------------------- *)

None == [t |-> "none"]

Str(s) == [t |-> "str", v |-> s]

Obj(f) == [t |-> "obj", f |-> f]

\* Python truthiness of a value: None and "" are falsy.
Truthy(x) == x.t = "obj" \/ (x.t = "str" /\ x.v # "")

IsDict(x) == x.t = "obj"

\* dict.get(key, default); only called on dicts.
DictGet(d, key, default) == IF key \in DOMAIN d.f THEN d.f[key] ELSE default

\* x or y
PyOr(x, y) == IF Truthy(x) THEN x ELSE y

(* ---------------------------- identifiers ----------------------------- *)

\* ObjectId(): a fresh 12-byte id; the n-th one generated is n.
\* str(ObjectId) is its hex form, here "oid<n>".
OidStr(n) == "oid" \o ToString(n)

MaxOid == 2 * MaxOrders + MaxInserts + 1

\* ObjectId(id_str): the id whose hex form id_str is, or 0 when id_str
\* is not the hex form of any id (bson raises InvalidId).
ParseOid(s) == IF \E n \in 1..MaxOid : OidStr(n) = s
               THEN CHOOSE n \in 1..MaxOid : OidStr(n) = s
               ELSE 0

Users == {"u1"}
Products == {"p1", "p2"}
Quantities == {1, 2}
Buyers == {"u1"}
PaymentIds == {"pay_1"}

(* ---------------------------- responses ------------------------------- *)

Ok(body) == [code |-> 200, body |-> body]

\* raise HTTPException(status_code, detail)
HTTPException(code, detail) == [code |-> code, body |-> [detail |-> detail]]

\* an exception no handler catches: the framework answers 500
Unhandled(what) == [code |-> 500, body |-> [detail |-> what]]

NoCall == [op |-> "none"]

(* ---------------------------- document store -------------------------- *)

\* index of the first document of coll whose fields equal those of filt, or 0
FindOne(coll, filt) ==
    LET hits == {i \in 1..Len(coll) : \A k \in DOMAIN filt : coll[i][k] = filt[k]}
    IN IF hits = {} THEN 0 ELSE CHOOSE i \in hits : \A j \in hits : i <= j

\* {"$set": upd} applied to one document
SetFields(doc, upd) ==
    [k \in DOMAIN doc \cup DOMAIN upd |-> IF k \in DOMAIN upd THEN upd[k] ELSE doc[k]]

\* coll.update_one(filt, {"$set": upd}): the first match is updated, atomically
UpdateOne(coll, filt, upd) ==
    LET i == FindOne(coll, filt)
    IN IF i = 0 THEN coll ELSE [coll EXCEPT ![i] = SetFields(coll[i], upd)]

\* matched_count of that update_one
MatchedCount(coll, filt) == IF FindOne(coll, filt) = 0 THEN 0 ELSE 1

\* coll.update_one({"_id": id}, {"$inc": {"quantity": by}})
IncQuantity(coll, id, by) ==
    LET i == FindOne(coll, [_id |-> id])
    IN IF i = 0 THEN coll ELSE [coll EXCEPT ![i].quantity = @ + by]

\* coll.delete_one(filt): the first match is removed
DeleteOne(coll, filt) ==
    LET i == FindOne(coll, filt)
    IN IF i = 0 THEN coll
       ELSE [j \in 1..(Len(coll) - 1) |-> IF j < i THEN coll[j] ELSE coll[j + 1]]

\* create_document(collection, data): insert data under a fresh _id
create_document(coll, data, id) ==
    Append(coll, SetFields(data, [_id |-> id]))

(* ---------------------------- configuration --------------------------- *)

\* os.getenv(name): None when unset, else the string
KeyIdValues == {None, Str("rzp_live_key")}
KeySecretValues == {None, Str("s1")}

EnvValues == [RAZORPAY_KEY_ID : KeyIdValues, RAZORPAY_KEY_SECRET : KeySecretValues]

getenv(name) == env[name]

(* ---------------------------- signature ------------------------------- *)

\* hmac.new(key, msg, sha256).hexdigest(); SHA-256 is taken collision-free:
\* the digest names the key and the message it was computed from.
HmacHex(key, msg) == "hmac[" \o key \o "](" \o msg \o ")"

\* f"{razorpay_order_id}|{razorpay_payment_id}"
SignedMessage(order_id, payment_id) == order_id \o "|" \o payment_id

\* generated, verify_payment's recomputed signature
Generated(key_secret, order_id, payment_id) ==
    HmacHex(PyOr(key_secret, Str("mock_secret")).v, SignedMessage(order_id, payment_id))

\* the same with the branches of the conditional swapped
IsValid_Swapped(key_secret, order_id, payment_id, signature) ==
    IF Truthy(key_secret)
    THEN TRUE
    ELSE Generated(key_secret, order_id, payment_id) = signature

\* is_valid = generated == body.razorpay_signature if key_secret else True
IsValid(key_secret, order_id, payment_id, signature) ==
    IF Truthy(key_secret)
    THEN Generated(key_secret, order_id, payment_id) = signature
    ELSE TRUE

(* ---------------------------- gateway ---------------------------------- *)

\* what requests.post(".../v1/orders", timeout=10) can do: answer with an
\* HTTP status, or raise (timeout, connection error): status 0 here
GatewayStatuses == {200, 299, 300, 500}
GatewayRaised == 0
GatewayOutcomes == GatewayStatuses \cup {GatewayRaised}

\* resp.json() of a successful answer: the gateway's n-th order object,
\* whose id the gateway issues fresh
GatewayOrder(n) == Obj([id |-> Str("order_gw" \o ToString(n))])

\* the same, letting 3xx answers through
GatewayRejected_From400(status_code) == status_code >= 400

\* if resp.status_code >= 300: raise HTTPException(...)
GatewayRejected(status_code) == status_code >= 300

\* if key_id and key_secret: the gateway path, else the mock fallback
UseGateway(key_id, key_secret) == Truthy(key_id) /\ Truthy(key_secret)

(* ---------------------------- orders ----------------------------------- *)

\* the document create_payment_order saves
NewOrder(user_id, razorpay_order_id) ==
    [user_id |-> user_id,
     payment_status |-> Str("pending"),
     shipping_status |-> Str("pending"),
     razorpay_order_id |-> razorpay_order_id,
     razorpay_payment_id |-> None]

\* a mock id that does not depend on the ObjectId
MockId_Fixed(n) == Str("order_mock")

\* mock_id = f"order_{ObjectId()}"
MockId(n) == Str("order_" \o OidStr(n))

Unused == UNCHANGED <<env, wishlist, cart, threads, log>>

\* POST /api/payment/create-order.  outcome is what the gateway request
\* does when one is sent; the mock fallback sends none
create_payment_order(user_id, outcome) ==
    LET key_id == getenv("RAZORPAY_KEY_ID")
        key_secret == getenv("RAZORPAY_KEY_SECRET")
    IN /\ Len(orders) < MaxOrders
       /\ call' = [op |-> "create_payment_order"]
       /\ IF UseGateway(key_id, key_secret)
          THEN IF outcome = GatewayRaised
               THEN /\ resp' = Unhandled("requests exception")
                    /\ UNCHANGED <<orders, oid_seq, gw_seq>>
               ELSE IF GatewayRejected(outcome)
               THEN /\ resp' = HTTPException(outcome, "gateway response text")
                    /\ UNCHANGED <<orders, oid_seq, gw_seq>>
               ELSE LET data == GatewayOrder(gw_seq + 1)
                    IN /\ orders' = create_document(orders,
                                       NewOrder(user_id, DictGet(data, "id", None)),
                                       oid_seq + 1)
                       /\ oid_seq' = oid_seq + 1
                       /\ gw_seq' = gw_seq + 1
                       /\ resp' = Ok([order |-> data, key_id |-> key_id])
          ELSE LET mock_id == MockId(oid_seq + 1)
               IN /\ orders' = create_document(orders, NewOrder(user_id, mock_id),
                                               oid_seq + 2)
                  /\ oid_seq' = oid_seq + 2
                  /\ UNCHANGED gw_seq
                  /\ resp' = Ok([order |-> Obj([id |-> mock_id]),
                                 key_id |-> Str("rzp_test_mock")])
       /\ Unused

\* status = "paid" if is_valid else "failed"
VerifyStatus(is_valid) == IF is_valid THEN "paid" ELSE "failed"

\* {"$set": {"payment_status": status, "razorpay_payment_id": ...}}
VerifyUpdate(status, payment_id) ==
    [payment_status |-> Str(status), razorpay_payment_id |-> Str(payment_id)]

\* an empty filter, which matches the first order stored
ByGatewayId_NoFilter(order_id) == <<>>

\* the filter verify_payment and payment_webhook select the order by
ByGatewayId(order_id) == [razorpay_order_id |-> order_id]

\* if not is_valid: raise HTTPException(400, "Invalid signature")
VerifyResponse(is_valid) ==
    IF ~is_valid THEN HTTPException(400, "Invalid signature") ELSE Ok([ok |-> TRUE])

\* POST /api/payment/verify
verify_payment(order_id, payment_id, signature) ==
    LET key_secret == getenv("RAZORPAY_KEY_SECRET")
        is_valid == IsValid(key_secret, order_id, payment_id, signature)
    IN /\ call' = [op |-> "verify_payment", razorpay_order_id |-> order_id,
                   razorpay_payment_id |-> payment_id, razorpay_signature |-> signature]
       /\ orders' = UpdateOne(orders, ByGatewayId(Str(order_id)),
                              VerifyUpdate(VerifyStatus(is_valid), payment_id))
       /\ resp' = VerifyResponse(is_valid)
       /\ UNCHANGED <<oid_seq, gw_seq>>
       /\ Unused

\* raised by .get on a value that is no dict
AttributeError == [t |-> "raise"]

\* payload.get("payload", {}).get("payment", {}).get("entity", {})
WebhookEntity(payload) ==
    LET a == DictGet(payload, "payload", Obj(<<>>))
    IN IF ~IsDict(a) THEN AttributeError
       ELSE LET b == DictGet(a, "payment", Obj(<<>>))
            IN IF ~IsDict(b) THEN AttributeError
               ELSE DictGet(b, "entity", Obj(<<>>))

\* {"$set": {"payment_status": status or "processing"}}
WebhookUpdate(status) == [payment_status |-> PyOr(status, Str("processing"))]

\* POST /api/payment/webhook
payment_webhook(payload) ==
    LET entity == WebhookEntity(payload)
    IN /\ call' = [op |-> "payment_webhook"]
       /\ IF ~IsDict(entity)
          THEN /\ resp' = Unhandled("AttributeError")
               /\ UNCHANGED orders
          ELSE LET order_id == DictGet(entity, "order_id", None)
                   status == DictGet(entity, "status", None)
               IN /\ orders' = IF Truthy(order_id)
                               THEN UpdateOne(orders, ByGatewayId(order_id),
                                              WebhookUpdate(status))
                               ELSE orders
                  /\ resp' = Ok([received |-> TRUE])
       /\ UNCHANGED <<oid_seq, gw_seq>>
       /\ Unused

\* update = {}; each of payment_status, shipping_status is added when truthy
AdminUpdate(payment_status, shipping_status) ==
    IF Truthy(payment_status) /\ Truthy(shipping_status)
    THEN [payment_status |-> payment_status, shipping_status |-> shipping_status]
    ELSE IF Truthy(payment_status) THEN [payment_status |-> payment_status]
    ELSE IF Truthy(shipping_status) THEN [shipping_status |-> shipping_status]
    ELSE <<>>

\* PUT /api/orders/{order_id}
update_order(order_id, payment_status, shipping_status) ==
    LET update == AdminUpdate(payment_status, shipping_status)
        id == ParseOid(order_id)
    IN /\ call' = [op |-> "update_order"]
       /\ IF DOMAIN update = {}
          THEN /\ resp' = HTTPException(400, "No fields to update")
               /\ UNCHANGED orders
          ELSE IF id = 0
          THEN /\ resp' = HTTPException(400, "Invalid id")
               /\ UNCHANGED orders
          ELSE /\ orders' = UpdateOne(orders, [_id |-> id], update)
               /\ resp' = IF MatchedCount(orders, [_id |-> id]) = 0
                          THEN HTTPException(404, "Order not found")
                          ELSE Ok([ok |-> TRUE])
       /\ UNCHANGED <<oid_seq, gw_seq>>
       /\ Unused

(* ---------------------------- request inputs --------------------------- *)

\* gateway order ids a client can name: those of the stored orders and one
\* that belongs to no order
KnownGatewayIds == {orders[i].razorpay_order_id.v : i \in 1..Len(orders)}
GatewayIdInputs == KnownGatewayIds \cup {"order_unknown"}

\* signatures a client can submit for (o, p): the one under the secret, the
\* one under the mock secret, and the one under the secret for another payment
SignatureInputs(o, p) ==
    {HmacHex("s1", SignedMessage(o, p)),
     HmacHex("mock_secret", SignedMessage(o, p)),
     HmacHex("s1", SignedMessage(o, "pay_other"))}

\* JSON values standing where a dict is expected
NonDicts == {None, Str("x")}

WebhookOrderIds == {Str(o) : o \in GatewayIdInputs}
WebhookStatuses == {None, Str("paid"), Str("failed"), Str("captured")}

\* payment entities: without order_id, with a null or empty one, with an
\* order_id and no status, with both
Entities ==
    {Obj(<<>>),
     Obj([order_id |-> None, status |-> Str("paid")]),
     Obj([order_id |-> Str(""), status |-> Str("paid")]),
     Obj([order_id |-> Str("order_unknown")])}
    \cup {Obj([order_id |-> o, status |-> s]) : o \in WebhookOrderIds, s \in WebhookStatuses}

Payments == {Obj(<<>>)} \cup {Obj([entity |-> e]) : e \in NonDicts \cup Entities}

Payloads == {Obj(<<>>)} \cup {Obj([payment |-> p]) : p \in NonDicts \cup Payments}

\* the bodies the webhook endpoint accepts (payload: dict); "event" is read
\* and never used
WebhookBodies ==
    {Obj([event |-> Str("payment.captured")])}
    \cup {Obj([event |-> Str("payment.captured"), payload |-> p]) : p \in NonDicts \cup Payloads}

\* ids an admin can name: those of the stored orders, a well-formed id of
\* no order, and a malformed one
OrderIdInputs ==
    {OidStr(orders[i]._id) : i \in 1..Len(orders)} \cup {OidStr(oid_seq + 1), "not-an-id"}
AdminPaymentStatuses == {None, Str("refunded")}
\* shipping_status is written by update_order only and read by no handler;
\* the admin re-sends the value every order already has
AdminShippingStatuses == {None, Str("pending")}

(* ---------------------------- specification ---------------------------- *)

NoResp == [code |-> 0, body |-> <<>>]

Init ==
    /\ env \in EnvValues
    /\ orders = <<>>
    /\ wishlist = <<>>
    /\ cart = <<>>
    /\ oid_seq = 0
    /\ gw_seq = 0
    /\ call = NoCall
    /\ resp = NoResp
    /\ threads = <<>>
    /\ log = <<>>

CreatePaymentOrder == \E u \in Buyers, g \in GatewayOutcomes : create_payment_order(u, g)

VerifyPayment ==
    \E o \in GatewayIdInputs, p \in PaymentIds :
        \E g \in SignatureInputs(o, p) : verify_payment(o, p, g)

PaymentWebhook == \E b \in WebhookBodies : payment_webhook(b)

UpdateOrder ==
    \E id \in OrderIdInputs, ps \in AdminPaymentStatuses, ss \in AdminShippingStatuses :
        update_order(id, ps, ss)

Next == CreatePaymentOrder \/ VerifyPayment \/ PaymentWebhook \/ UpdateOrder

Spec == Init /\ [][Next]_vars

(* ---------------------------- wishlist and cart ------------------------ *)
(* The handlers are sync functions, which the framework runs on a thread   *)
(* pool: requests interleave at their store operations.  A thread is a     *)
(* request in flight between its find_one and its insert / update.         *)

Idle == [op |-> "idle"]

WishlistItems == [user_id : Users, product_id : Products]
CartItems == [user_id : Users, product_id : Products, quantity : Quantities]

\* the (user_id, product_id) filter of the wishlist and cart handlers
ByUserProduct(user_id, product_id) == [user_id |-> user_id, product_id |-> product_id]

\* coll.find_one(filt): the document, or None
FindOneDoc(coll, filt) == IF FindOne(coll, filt) = 0 THEN None ELSE coll[FindOne(coll, filt)]

\* a found document is a non-empty dict: truthy
Found(existing) == existing # None

OrdersUnused == UNCHANGED <<env, orders, gw_seq, log>>

\* add_wishlist up to its find_one
add_wishlist_find(t, item) ==
    /\ threads[t] = Idle
    /\ threads' = [threads EXCEPT ![t] =
           [op |-> "add_wishlist", item |-> item,
            existing |-> FindOneDoc(wishlist, ByUserProduct(item.user_id, item.product_id))]]
    /\ UNCHANGED <<wishlist, cart, oid_seq, call, resp>>
    /\ OrdersUnused

\* add_wishlist from "if existing:" on
add_wishlist_finish(t) ==
    /\ threads[t].op = "add_wishlist"
    /\ call' = [op |-> "add_wishlist"]
    /\ IF Found(threads[t].existing)
       THEN /\ resp' = Ok([id |-> OidStr(threads[t].existing._id)])
            /\ UNCHANGED <<wishlist, oid_seq>>
       ELSE /\ oid_seq < MaxInserts
            /\ wishlist' = create_document(wishlist, threads[t].item, oid_seq + 1)
            /\ oid_seq' = oid_seq + 1
            /\ resp' = Ok([id |-> OidStr(oid_seq + 1)])
    /\ threads' = [threads EXCEPT ![t] = Idle]
    /\ UNCHANGED cart
    /\ OrdersUnused

\* DELETE /api/wishlist
remove_wishlist(user_id, product_id) ==
    /\ call' = [op |-> "remove_wishlist"]
    /\ wishlist' = DeleteOne(wishlist, ByUserProduct(user_id, product_id))
    /\ resp' = Ok([deleted |-> MatchedCount(wishlist, ByUserProduct(user_id, product_id)) > 0])
    /\ UNCHANGED <<cart, oid_seq, threads>>
    /\ OrdersUnused

\* add_to_cart up to its find_one
add_to_cart_find(t, item) ==
    /\ threads[t] = Idle
    /\ threads' = [threads EXCEPT ![t] =
           [op |-> "add_to_cart", item |-> item,
            existing |-> FindOneDoc(cart, ByUserProduct(item.user_id, item.product_id))]]
    /\ UNCHANGED <<wishlist, cart, oid_seq, call, resp>>
    /\ OrdersUnused

\* add_to_cart from "if existing:" on
add_to_cart_finish(t) ==
    LET item == threads[t].item
        existing == threads[t].existing
    IN /\ threads[t].op = "add_to_cart"
       /\ call' = [op |-> "add_to_cart"]
       /\ IF Found(existing)
          THEN /\ \A i \in 1..Len(cart) :
                      cart[i]._id = existing._id => cart[i].quantity + item.quantity <= MaxQuantity
               /\ cart' = IncQuantity(cart, existing._id, item.quantity)
               /\ resp' = Ok([id |-> OidStr(existing._id),
                              quantity |-> existing.quantity + item.quantity])
               /\ UNCHANGED oid_seq
          ELSE /\ oid_seq < MaxInserts
               /\ cart' = create_document(cart, item, oid_seq + 1)
               /\ oid_seq' = oid_seq + 1
               /\ resp' = Ok([id |-> OidStr(oid_seq + 1)])
       /\ threads' = [threads EXCEPT ![t] = Idle]
       /\ UNCHANGED wishlist
       /\ OrdersUnused

\* PUT /api/cart
update_cart(item) ==
    LET filt == ByUserProduct(item.user_id, item.product_id)
    IN /\ call' = [op |-> "update_cart"]
       /\ cart' = UpdateOne(cart, filt, [quantity |-> item.quantity])
       /\ resp' = IF MatchedCount(cart, filt) = 0
                  THEN HTTPException(404, "Cart item not found")
                  ELSE Ok([ok |-> TRUE])
       /\ UNCHANGED <<wishlist, oid_seq, threads>>
       /\ OrdersUnused

\* DELETE /api/cart
remove_from_cart(user_id, product_id) ==
    /\ call' = [op |-> "remove_from_cart"]
    /\ cart' = DeleteOne(cart, ByUserProduct(user_id, product_id))
    /\ resp' = Ok([deleted |-> MatchedCount(cart, ByUserProduct(user_id, product_id)) > 0])
    /\ UNCHANGED <<wishlist, oid_seq, threads>>
    /\ OrdersUnused

InitCart ==
    /\ env = [RAZORPAY_KEY_ID |-> None, RAZORPAY_KEY_SECRET |-> None]
    /\ orders = <<>>
    /\ wishlist = <<>>
    /\ cart = <<>>
    /\ oid_seq = 0
    /\ gw_seq = 0
    /\ call = NoCall
    /\ resp = NoResp
    /\ threads = [t \in 1..MaxThreads |-> Idle]
    /\ log = <<>>

AddWishlistFind == \E t \in 1..MaxThreads, item \in WishlistItems : add_wishlist_find(t, item)
AddWishlistFinish == \E t \in 1..MaxThreads : add_wishlist_finish(t)
RemoveWishlist == \E u \in Users, p \in Products : remove_wishlist(u, p)
AddToCartFind == \E t \in 1..MaxThreads, item \in CartItems : add_to_cart_find(t, item)
AddToCartFinish == \E t \in 1..MaxThreads : add_to_cart_finish(t)
UpdateCart == \E item \in CartItems : update_cart(item)
RemoveFromCart == \E u \in Users, p \in Products : remove_from_cart(u, p)

NextCart ==
    \/ AddWishlistFind \/ AddWishlistFinish \/ RemoveWishlist
    \/ AddToCartFind \/ AddToCartFinish \/ UpdateCart \/ RemoveFromCart

SpecCart == InitCart /\ [][NextCart]_vars

(* ---------------------------- verify / webhook race -------------------- *)
(* One verify_payment request and one payment_webhook request in flight    *)
(* together: each is called (its locals computed), then its update_one     *)
(* lands on the store and it returns.  log lists the updates in the order   *)
(* they land: the filter's order id and the payment_status written.        *)

CartUnused == UNCHANGED <<env, wishlist, cart>>

\* verify_payment up to the update_one
verify_call(order_id, payment_id, signature) ==
    LET key_secret == getenv("RAZORPAY_KEY_SECRET")
        is_valid == IsValid(key_secret, order_id, payment_id, signature)
    IN /\ threads.verify = Idle
       /\ threads' = [threads EXCEPT !.verify =
              [op |-> "called", order_id |-> Str(order_id), payment_id |-> payment_id,
               signature |-> signature, is_valid |-> is_valid]]
       /\ UNCHANGED <<orders, oid_seq, gw_seq, call, resp, log>>
       /\ CartUnused

\* verify_payment's update_one and return
verify_land ==
    LET th == threads.verify
        upd == VerifyUpdate(VerifyStatus(th.is_valid), th.payment_id)
    IN /\ th.op = "called"
       /\ orders' = UpdateOne(orders, ByGatewayId(th.order_id), upd)
       /\ log' = Append(log, [by |-> "verify_payment", order_id |-> th.order_id,
                              payment_status |-> upd.payment_status])
       /\ call' = [op |-> "verify_payment", razorpay_order_id |-> th.order_id.v,
                   razorpay_payment_id |-> th.payment_id, razorpay_signature |-> th.signature]
       /\ resp' = VerifyResponse(th.is_valid)
       /\ threads' = [threads EXCEPT !.verify.op = "done"]
       /\ UNCHANGED <<oid_seq, gw_seq>>
       /\ CartUnused

\* payment_webhook up to "if order_id:"
webhook_call(payload) ==
    LET entity == WebhookEntity(payload)
    IN /\ threads.webhook = Idle
       /\ threads' = [threads EXCEPT !.webhook =
              IF ~IsDict(entity)
              THEN [op |-> "raised", order_id |-> None, status |-> None]
              ELSE [op |-> "called",
                    order_id |-> DictGet(entity, "order_id", None),
                    status |-> DictGet(entity, "status", None)]]
       /\ UNCHANGED <<orders, oid_seq, gw_seq, call, resp, log>>
       /\ CartUnused

\* payment_webhook's update_one, when it has an order_id, and return
webhook_land ==
    LET th == threads.webhook
        upd == WebhookUpdate(th.status)
    IN /\ th.op \in {"called", "raised"}
       /\ call' = [op |-> "payment_webhook"]
       /\ IF th.op = "raised"
          THEN /\ resp' = Unhandled("AttributeError")
               /\ UNCHANGED <<orders, log>>
          ELSE /\ resp' = Ok([received |-> TRUE])
               /\ IF Truthy(th.order_id)
                  THEN /\ orders' = UpdateOne(orders, ByGatewayId(th.order_id), upd)
                       /\ log' = Append(log, [by |-> "payment_webhook",
                                              order_id |-> th.order_id,
                                              payment_status |-> upd.payment_status])
                  ELSE UNCHANGED <<orders, log>>
       /\ threads' = [threads EXCEPT !.webhook.op = "done"]
       /\ UNCHANGED <<oid_seq, gw_seq>>
       /\ CartUnused

InitRace ==
    /\ env \in EnvValues
    /\ orders = <<>>
    /\ wishlist = <<>>
    /\ cart = <<>>
    /\ oid_seq = 0
    /\ gw_seq = 0
    /\ call = NoCall
    /\ resp = NoResp
    /\ threads = [verify |-> Idle, webhook |-> Idle]
    /\ log = <<>>

VerifyCall ==
    \E o \in GatewayIdInputs, p \in PaymentIds :
        \E g \in SignatureInputs(o, p) : verify_call(o, p, g)
VerifyLand == verify_land
WebhookCall == \E b \in WebhookBodies : webhook_call(b)
WebhookLand == webhook_land

\* create_payment_order reads no order and writes one document: one step
NextRace == CreatePaymentOrder \/ VerifyCall \/ VerifyLand \/ WebhookCall \/ WebhookLand

SpecRace == InitRace /\ [][NextRace]_vars

(* ======================================================================= *)
(* Properties                                                              *)
(* ======================================================================= *)

PaymentStatuses == {"pending", "paid", "failed", "refunded"}

AllowedTransitions ==
    {<<"pending", "paid">>, <<"pending", "failed">>, <<"paid", "refunded">>}

\* C1: every change of an order's payment_status is one of pending->paid,
\* pending->failed, paid->refunded.
C1_StatusTransitions ==
    [][\A i \in 1..Len(orders) :
          orders'[i].payment_status # orders[i].payment_status
          => <<orders[i].payment_status.v, orders'[i].payment_status.v>> \in AllowedTransitions]_vars

\* C2: every stored order has payment_status in {pending, paid, failed, refunded}.
C2_StatusInEnum ==
    \A i \in 1..Len(orders) : orders[i].payment_status.v \in PaymentStatuses

\* the gateway answered 2xx
GatewaySucceeded(outcome) == outcome \in 200..299

\* C3: a create_payment_order call that succeeds (gateway 2xx, or mock mode)
\* appends exactly one order, pending / pending, whose razorpay_order_id is
\* the id returned; a call whose gateway request fails returns an error and
\* leaves the collection as it was; stored orders are never modified.
C3_CreateOrderEffect ==
    [][\A u \in Buyers, g \in GatewayOutcomes :
          (call'.op = "create_payment_order" /\ create_payment_order(u, g)) =>
             IF ~UseGateway(env.RAZORPAY_KEY_ID, env.RAZORPAY_KEY_SECRET) \/ GatewaySucceeded(g)
             THEN /\ Len(orders') = Len(orders) + 1
                  /\ SubSeq(orders', 1, Len(orders)) = orders
                  /\ orders'[Len(orders')].payment_status = Str("pending")
                  /\ orders'[Len(orders')].shipping_status = Str("pending")
                  /\ orders'[Len(orders')].user_id = u
                  /\ resp'.code = 200
                  /\ orders'[Len(orders')].razorpay_order_id = resp'.body.order.f.id
             ELSE /\ orders' = orders
                  /\ resp'.code # 200]_vars

\* C3 witness: a second order has just been created through the gateway.
C3_Witness ==
    /\ call.op = "create_payment_order"
    /\ resp.code = 200
    /\ Len(orders) = 2
    /\ UseGateway(env.RAZORPAY_KEY_ID, env.RAZORPAY_KEY_SECRET)
    /\ orders[2].razorpay_order_id = resp.body.order.f.id
    /\ orders[1].payment_status # Str("pending")

\* the signature the gateway would issue for (o, p) under the configured secret
ExpectedSignature(o, p) == HmacHex(env.RAZORPAY_KEY_SECRET.v, SignedMessage(o, p))

SecretConfigured == env.RAZORPAY_KEY_SECRET # None /\ env.RAZORPAY_KEY_SECRET.v # ""

\* C4: verify_payment(O, P, G) sets the matching order paid and returns ok
\* exactly when G is the signature recomputed from (secret, O, P) or no secret
\* is configured; otherwise it sets the matching order failed and fails with
\* Invalid signature.
C4_VerifyOutcome ==
    call.op = "verify_payment" =>
       LET o == call.razorpay_order_id
           p == call.razorpay_payment_id
           i == FindOne(orders, [razorpay_order_id |-> Str(o)])
           accepted == ~SecretConfigured \/ call.razorpay_signature = ExpectedSignature(o, p)
       IN IF accepted
          THEN /\ resp = Ok([ok |-> TRUE])
               /\ i # 0 => orders[i].payment_status = Str("paid")
          ELSE /\ resp = HTTPException(400, "Invalid signature")
               /\ i # 0 => orders[i].payment_status = Str("failed")

\* C4 witness: with a secret configured, a verify call was rejected and the
\* order it named is failed, after another order was verified as paid.
C4_Witness ==
    /\ SecretConfigured
    /\ call.op = "verify_payment"
    /\ resp = HTTPException(400, "Invalid signature")
    /\ Len(orders) = 2
    /\ orders[1].payment_status = Str("paid")
    /\ orders[1].razorpay_payment_id # None
    /\ orders[2].payment_status = Str("failed")

\* C5: payment_webhook answers {received: true} for every event payload.
C5_WebhookAlwaysAcks ==
    call.op = "payment_webhook" => resp = Ok([received |-> TRUE])

UniquePairs(coll) ==
    \A i, j \in 1..Len(coll) :
        (coll[i].user_id = coll[j].user_id /\ coll[i].product_id = coll[j].product_id) => i = j

\* C6: the cart and the wishlist each hold at most one document per
\* (user_id, product_id) pair.
C6_UniquePairs == UniquePairs(cart) /\ UniquePairs(wishlist)

\* C7: no two orders share a razorpay_order_id, and no step changes the
\* razorpay_order_id of a stored order.
C7_GatewayIdUniqueImmutable ==
    [][/\ \A i \in 1..Len(orders) :
             /\ i <= Len(orders')
             /\ orders'[i].razorpay_order_id = orders[i].razorpay_order_id
       /\ \A i, j \in 1..Len(orders') :
             orders'[i].razorpay_order_id = orders'[j].razorpay_order_id => i = j]_vars

\* C7 witness: two orders are stored and both have been updated since.
C7_Witness ==
    /\ Len(orders) = 2
    /\ orders[1].razorpay_order_id # orders[2].razorpay_order_id
    /\ orders[1].payment_status = Str("refunded")
    /\ orders[2].razorpay_payment_id # None

\* C8: create_payment_order takes its mock path exactly when verify_payment
\* bypasses the signature check.
C8_OneMode ==
    Len(orders) > 0 =>
        (~UseGateway(getenv("RAZORPAY_KEY_ID"), getenv("RAZORPAY_KEY_SECRET"))
         <=> IsValid(getenv("RAZORPAY_KEY_SECRET"), "order_unknown", "pay_1", "forged"))

\* C9: a verify_payment call that fails with Invalid signature leaves every
\* order's razorpay_payment_id as it was.
C9_PaymentIdOnlyWhenConfirmed ==
    [][(call'.op = "verify_payment" /\ resp' = HTTPException(400, "Invalid signature"))
       => \A i \in 1..Len(orders) :
             orders'[i].razorpay_payment_id = orders[i].razorpay_payment_id]_vars

\* the updates of log that name order rid
WritesTo(rid) == {k \in 1..Len(log) : log[k].order_id = rid}

LastWrite(rid) == CHOOSE k \in WritesTo(rid) : \A m \in WritesTo(rid) : m <= k

RaceDone == threads.verify.op = "done" /\ threads.webhook.op = "done"

\* C10: with a verify_payment and a payment_webhook in flight for the same
\* order, every order's payment_status is the value of the last update landed
\* on it (pending, and no payment id, when none landed); once both have
\* returned each has landed exactly one update.
C10_LastWriteWins ==
    /\ \A i \in 1..Len(orders) :
          IF WritesTo(orders[i].razorpay_order_id) = {}
          THEN /\ orders[i].payment_status = Str("pending")
               /\ orders[i].razorpay_payment_id = None
          ELSE orders[i].payment_status
                  = log[LastWrite(orders[i].razorpay_order_id)].payment_status
    /\ (RaceDone /\ Truthy(threads.webhook.order_id))
          => /\ Len(log) = 2
             /\ {log[1].by, log[2].by} = {"verify_payment", "payment_webhook"}

\* C10 witness: both requests named the same stored order, the verify update
\* landed first and the webhook's, with another status, overwrote it.
C10_Witness ==
    /\ RaceDone
    /\ Len(orders) = 2
    /\ threads.verify.order_id = orders[2].razorpay_order_id
    /\ threads.webhook.order_id = orders[2].razorpay_order_id
    /\ Len(log) = 2
    /\ log[1].by = "verify_payment"
    /\ log[2].by = "payment_webhook"
    /\ log[1].payment_status # log[2].payment_status
    /\ orders[2].payment_status = log[2].payment_status

====
